---- MODULE Spec2Model ----
(***************************************************************************)
(* Creator collection page (src/pages/creators/[creator].tsx):             *)
(*   - getServerSideProps resolves marketplace/creator before render;      *)
(*   - CreatorShow issues the NFT-list query, refetches it on every        *)
(*     filter-form change (watch subscription) and pages it by offset      *)
(*     (onLoadMore).                                                       *)
(* Lists of NFTs are represented by their length: the page only ever reads *)
(* length(nfts), isEmpty(nfts) and hands the items to <List>.              *)
(*                                                                         *)
(* What the libraries do, as far as the page relies on it:                 *)
(*   - useQuery: loading is true for the first fetch and again when the    *)
(*     variables option changes (wallet counts, on publicKey); refetch and *)
(*     fetchMore do not raise it (notifyOnNetworkStatusChange is not set); *)
(*     refetch merges its argument into the query's variables;             *)
(*   - the handlers read data and variables as the query holds them when   *)
(*     they run;                                                           *)
(*   - react-hook-form: the form holds { preset } until an attribute       *)
(*     Controller registers attributes.<index>; watch runs its callback on *)
(*     every onChange;                                                     *)
(*   - ramda: filter applied to undefined throws a TypeError.              *)
(***************************************************************************)
EXTENDS Integers, Sequences, FiniteSets, TLC

VARIABLES
    ssr,                \* the server-side request: query, fetched data, result
    publicKey,          \* useWallet().publicKey
    connected,          \* useWallet().connected
    hasMore,            \* useState(true)
    form,               \* react-hook-form values: preset, attributes
    data,               \* useQuery(GET_NFTS).data
    variables,          \* useQuery(GET_NFTS).variables
    loadingNfts,        \* useQuery(GET_NFTS).loading
    collectionQuery,    \* useQuery(GET_COLLECTION_INFO): loading, data
    nftCountsQuery,     \* useQuery(GET_NFT_COUNTS): loading
    walletCountsQuery,  \* useQuery(GET_WALLET_COUNTS): loading, variables, last refetch
    inflight,           \* NFT-list requests sent and not yet answered
    issued,             \* number of NFT-list requests sent so far
    lastRequest,        \* the NFT-list request sent last
    latestRefetch,      \* id of the filter refetch sent last (0: none)
    lastEvent,          \* the handler that ran last (history)
    pristine,           \* no input (wallet, form, sentinel) has happened yet (history)
    matching            \* NFTs the API holds for the filter (Undefined: left open)

vars == <<ssr, publicKey, connected, hasMore, form, data, variables, loadingNfts,
          collectionQuery, nftCountsQuery, walletCountsQuery, inflight, issued,
          lastRequest, latestRefetch, lastEvent, pristine, matching>>

clientVars == <<publicKey, connected, hasMore, form, data, variables, loadingNfts,
                collectionQuery, nftCountsQuery, walletCountsQuery, inflight, issued,
                lastRequest, latestRefetch, lastEvent, pristine, matching>>

-----------------------------------------------------------------------------
(* Bounds of the model *)

\* NFT-list requests (initial query, refetches, load-more) sent in one run
MaxRequests == 3
\* options selected at once in one attribute Select
MaxSelected == 1
\* creators registered on a marketplace returned to getServerSideProps
MaxCreators == 2

-----------------------------------------------------------------------------
(* JavaScript values *)

\* null and undefined for object- and list-typed values; lists are tagged so
\* that they can be compared with them
Null == [tag |-> "null"]
Undefined == [tag |-> "undefined"]
List(s) == [tag |-> "list", items |-> s]
isNil(x) == x = Null \/ x = Undefined

\* undefined where a string is expected (pubkey, address)
UndefinedStr == "undefined"

\* a wallet public key, by the number its bytes encode
PublicKey(n) == [tag |-> "key", n |-> n]

Base58Alphabet ==
    << "1", "2", "3", "4", "5", "6", "7", "8", "9", "A", "B", "C", "D", "E", "F",
       "G", "H", "J", "K", "L", "M", "N", "P", "Q", "R", "S", "T", "U", "V", "W",
       "X", "Y", "Z", "a", "b", "c", "d", "e", "f", "g", "h", "i", "j", "k", "m",
       "n", "o", "p", "q", "r", "s", "t", "u", "v", "w", "x", "y", "z" >>

RECURSIVE base58(_)
base58(n) ==
    IF n < Len(Base58Alphabet)
    THEN Base58Alphabet[n + 1]
    ELSE base58(n \div Len(Base58Alphabet)) \o Base58Alphabet[(n % Len(Base58Alphabet)) + 1]

\* publicKey?.toBase58()
toBase58(key) == IF isNil(key) THEN UndefinedStr ELSE base58(key.n)

\* the wallets a visitor can connect
Keys == { PublicKey(7), PublicKey(59) }

\* PresetNftFilter
All == "All"
Listed == "Listed"
Owned == "Owned"
OpenOffers == "OpenOffers"
PresetNftFilter == { All, Listed, Owned, OpenOffers }

\* limit of the NFT-list query
Limit == 24

-----------------------------------------------------------------------------
(* getServerSideProps *)

Addresses == { "creatorA", "creatorB", "creatorC" }

RECURSIVE SeqsUpTo(_, _)
SeqsUpTo(S, n) ==
    IF n = 0 THEN { <<>> }
    ELSE LET shorter == SeqsUpTo(S, n - 1)
         IN  shorter \cup { Append(s, x) : s \in { t \in shorter : Len(t) = n - 1 }, x \in S }

AuctionHouse == [address |-> "auctionHouse1", authority |-> "authority1"]

\* what the GraphQL API can answer for marketplace(subdomain)
Marketplaces ==
    { Null } \cup
    { [creators |-> cs, auctionHouse |-> AuctionHouse] :
        cs \in { Null } \cup { List([i \in DOMAIN s |-> [creatorAddress |-> s[i]]]) :
                                s \in SeqsUpTo(Addresses, MaxCreators) } }

\* what the GraphQL API can answer for creator(address)
Creators == { Null } \cup { [address |-> a] : a \in Addresses }

\* indexOf(x) over a list: -1 when x is not in it
indexOf(x, s) ==
    IF \E i \in DOMAIN s : s[i] = x
    THEN (CHOOSE i \in DOMAIN s : s[i] = x /\ \A j \in DOMAIN s : s[j] = x => i <= j) - 1
    ELSE -1

\* marketplace?.creators || []
creatorsOf(marketplace) ==
    IF isNil(marketplace) THEN <<>>
    ELSE IF isNil(marketplace.creators) THEN <<>>
    ELSE marketplace.creators.items

\* mutant: the registered-creators test is dropped
isNotFoundNilOnly(marketplace, creator, queryCreator) ==
    isNil(marketplace) \/ isNil(creator)

\* the notFound test of getServerSideProps
isNotFound(marketplace, creator, queryCreator) ==
    \/ isNil(marketplace) \/ isNil(creator)
    \/ indexOf(queryCreator, [i \in DOMAIN creatorsOf(marketplace) |->
                                creatorsOf(marketplace)[i].creatorAddress]) = -1

getServerSideProps(marketplace, creator, queryCreator) ==
    IF isNotFound(marketplace, creator, queryCreator)
    THEN [notFound |-> TRUE]
    ELSE [props |-> [marketplace |-> marketplace, creator |-> creator]]

Pending == [pending |-> TRUE]

-----------------------------------------------------------------------------
(* CreatorShow: props and queries *)

\* the page that getServerSideProps served to the browser
Served(m, c, q) ==
    [query |-> [creator |-> q],
     data |-> [marketplace |-> m, creator |-> c],
     result |-> getServerSideProps(m, c, q)]

ServedPages ==
    { Served([creators |-> List(<< [creatorAddress |-> "creatorA"] >>),
              auctionHouse |-> AuctionHouse],
             [address |-> "creatorA"], "creatorA") }

marketplace == ssr.result.props.marketplace
routerQueryCreator == ssr.query.creator

\* attributeGroups the API can answer in GET_COLLECTION_INFO
AttributeGroups ==
    { <<>>,
      << [name |-> "Background",
          variants |-> << [name |-> "Red", count |-> 2], [name |-> "Blue", count |-> 1] >>],
         [name |-> "Hat",
          variants |-> << [name |-> "Cap", count |-> 3] >>] >> }

\* a BN amount of lamports, and BN.toNumber()
BN(n) == [bn |-> n]
toNumber(amount) == amount.bn

\* creator.stats and creator.counts the API can answer in GET_COLLECTION_INFO
StatsOne == << [floor |-> BN(0), volume24hr |-> BN(3), average |-> BN(2)] >>
StatsTwo == << [floor |-> BN(5), volume24hr |-> BN(7), average |-> BN(6)],
               [floor |-> BN(1), volume24hr |-> BN(9), average |-> BN(4)] >>

\* the creators the API can answer in GET_COLLECTION_INFO
CollectionCreators ==
    { [attributeGroups |-> <<>>, stats |-> <<>>, counts |-> Null],
      [attributeGroups |-> <<>>, stats |-> StatsOne, counts |-> [creations |-> 0]] }
    \cup { [attributeGroups |-> g, stats |-> StatsTwo, counts |-> [creations |-> 12]] :
             g \in AttributeGroups \ { <<>> } }

\* sizes of the pages the API can answer (never more than limit)
PageSizes == { 0, Limit - 1, Limit }

\* mutant: the first page is asked with half the page size
InitialVariablesHalfPage(creator) ==
    [creators |-> List(<<creator>>), offset |-> 0, limit |-> Limit \div 2,
     owners |-> Undefined, listed |-> Undefined, offerers |-> Undefined,
     attributes |-> Undefined]

\* variables of useQuery(GET_NFTS)
InitialVariables(creator) ==
    [creators |-> List(<<creator>>), offset |-> 0, limit |-> Limit,
     owners |-> Undefined, listed |-> Undefined, offerers |-> Undefined,
     attributes |-> Undefined]

\* variables of useQuery(GET_WALLET_COUNTS) and of its refetch
walletCountsVariables(key, creator, auctionHouse) ==
    [address |-> toBase58(key), creators |-> List(<<creator>>),
     auctionHouses |-> List(<<auctionHouse>>)]

\* mutant: the effect refetches whether or not a wallet is connected
walletCountsEffectAlways(key, creator, auctionHouse) ==
    walletCountsVariables(key, creator, auctionHouse)

\* the effect on [auction house address, publicKey, walletCountsQuery]: the
\* variables of the refetch it issues, Undefined when it issues none
walletCountsEffect(key, creator, auctionHouse) ==
    IF key # Null
    THEN walletCountsVariables(key, creator, auctionHouse)
    ELSE Undefined

\* mutant: the wallet counts query is left out of loading
isLoadingWithoutWallet(nfts, collection, nftCounts, walletCounts) ==
    nfts \/ collection.loading \/ nftCounts.loading

\* const loading = loadingNfts || collectionQuery.loading || ...
isLoading(nfts, collection, nftCounts, walletCounts) ==
    nfts \/ collection.loading \/ nftCounts.loading \/ walletCounts.loading

loading == isLoading(loadingNfts, collectionQuery, nftCountsQuery, walletCountsQuery)

\* what the page shows
Placeholder == [placeholder |-> TRUE]
Text(x) == [text |-> x]

\* toSOL(lamports), of modules/lamports: kept as the application itself
toSOL(lamports) == [toSOL |-> lamports]

\* ifElse(isEmpty, always(0), (stats) => stats[0].<field>.toNumber())(creator.stats)
firstStat(stats, field) == IF stats = <<>> THEN 0 ELSE toNumber(stats[1][field])

\* {loading ? <placeholder/> : <span>{toSOL(...)}</span>}
statShown(isLoadingNow, collection, field) ==
    IF isLoadingNow THEN Placeholder ELSE toSOL(firstStat(collection.data.stats, field))

\* {loading ? <placeholder/> : collectionQuery.data?.creator.counts?.creations || 0}
nftsShown(isLoadingNow, collection) ==
    IF isLoadingNow THEN Placeholder
    ELSE IF isNil(collection.data) THEN Text(0)
    ELSE IF isNil(collection.data.counts) THEN Text(0)
    ELSE Text(collection.data.counts.creations)

\* the statistics block and the preset radios as rendered from the state
view ==
    [floor |-> statShown(loading, collectionQuery, "floor"),
     volume24hr |-> statShown(loading, collectionQuery, "volume24hr"),
     average |-> statShown(loading, collectionQuery, "average"),
     nfts |-> nftsShown(loading, collectionQuery),
     presetDisabled |-> loading]

\* options of one attribute Select
optionsOf(variants) ==
    [i \in DOMAIN variants |->
        [value |-> variants[i].name,
         label |-> variants[i].name \o " (" \o ToString(variants[i].count) \o ")"]]

\* the attribute Controllers rendered once nothing is loading: each registers
\* attributes.<index> with defaultValue { traitType: group, values: [] }
registerAttributes(f, isLoadingNow, collection) ==
    IF isLoadingNow \/ isNil(collection.data) THEN f
    ELSE IF collection.data.attributeGroups = <<>> THEN f
    ELSE IF ~isNil(f.attributes) THEN f
    ELSE [f EXCEPT !.attributes =
            [i \in DOMAIN collection.data.attributeGroups |->
                [traitType |-> collection.data.attributeGroups[i].name, values |-> <<>>]]]

-----------------------------------------------------------------------------
(* The watch subscription: filter form -> refetch variables *)

\* mutant: the empty selections are not filtered out
nextAttributesUnfiltered(attributes) ==
    [i \in DOMAIN attributes |->
        [traitType |-> attributes[i].traitType,
         values |-> [j \in DOMAIN attributes[i].values |-> attributes[i].values[j].value]]]

\* filter(pipe(prop('values'), isEmpty, not)) then map(modify('values', map(prop('value'))))
nextAttributes(attributes) ==
    LET kept == SelectSeq(attributes, LAMBDA a : a.values # <<>>)
    IN  [i \in DOMAIN kept |->
            [traitType |-> kept[i].traitType,
             values |-> [j \in DOMAIN kept[i].values |-> kept[i].values[j].value]]]

\* ifElse(equals(PresetNftFilter.Owned), always([pubkey]), always(null))
owners(preset, pubkey) == IF preset = Owned THEN List(<<pubkey>>) ELSE Null

\* mutant: offerers tests the Owned preset
offerersOfOwned(preset, pubkey) == IF preset = Owned THEN List(<<pubkey>>) ELSE Null

\* ifElse(equals(PresetNftFilter.OpenOffers), always([pubkey]), always(null))
offerers(preset, pubkey) == IF preset = OpenOffers THEN List(<<pubkey>>) ELSE Null

\* ifElse(equals(PresetNftFilter.Listed), always([auctionHouse.address]), always(null))
listed(preset, auctionHouseAddress) ==
    IF preset = Listed THEN List(<<auctionHouseAddress>>) ELSE Null

\* the object handed to refetch, merged into the query's variables
refetchVariables(current, f, key, creator, auctionHouseAddress) ==
    [current EXCEPT
        !.creators = List(<<creator>>),
        !.attributes = List(nextAttributes(f.attributes)),
        !.owners = owners(f.preset, toBase58(key)),
        !.offerers = offerers(f.preset, toBase58(key)),
        !.listed = listed(f.preset, auctionHouseAddress),
        !.offset = 0]

\* filter(...)(attributes) throws a TypeError when attributes is undefined:
\* the callback ends before refetch
watchThrows(f) == isNil(f.attributes)

\* mutant: any page that is not empty keeps pagination going
thenSetHasMoreNonEmpty(nfts, limit) == nfts # 0

\* pipe(pipe(length, equals(variables?.limit)), setHasMore)(nfts)
thenSetHasMore(nfts, limit) == nfts = limit

\* when(isEmpty, partial(setHasMore, [false]))(nfts)
whenEmptyKeepHasMore(nfts, current) == current

whenEmptySetHasMoreFalse(nfts, current) == IF nfts = 0 THEN FALSE ELSE current

\* length(data?.nfts || [])
heldCount(d) == IF isNil(d) THEN 0 ELSE d.nfts

\* mutant: the filters of the current variables are not spread into the request
fetchMoreVariablesUnfiltered(current, d) ==
    [current EXCEPT !.offset = IF isNil(d) THEN 0 ELSE d.nfts,
                    !.owners = Undefined, !.listed = Undefined,
                    !.offerers = Undefined, !.attributes = Undefined]

\* mutant: the next offset is one page past the offset of the variables
fetchMoreVariablesByPage(current, d) == [current EXCEPT !.offset = current.offset + current.limit]

\* variables of fetchMore: { ...variables, offset: length(data?.nfts || []) }
fetchMoreVariables(current, d) == [current EXCEPT !.offset = heldCount(d)]

\* mutant: sending a request cancels the requests in flight
sendCancelling(pending, request) == { request }

\* a request goes out; the requests already in flight stay in flight
send(pending, request) == pending \cup { request }

\* the held list after a load-more page arrives (cache merge of the client)
mergeNfts(d, n) == [nfts |-> heldCount(d) + n]

Event(type, id, n, sent) == [type |-> type, id |-> id, n |-> n, sent |-> sent]
LoadMoreEvent(id, sent, inView) ==
    [type |-> "loadMore", id |-> id, n |-> 0, sent |-> sent, inView |-> inView]

-----------------------------------------------------------------------------
(* State after the first render of CreatorShow *)

Mounted(page) ==
    /\ ssr = page
    /\ publicKey = Null
    /\ connected = FALSE
    /\ hasMore = TRUE
    /\ form = [preset |-> All, attributes |-> Undefined]
    /\ data = Undefined
    /\ variables = InitialVariables(page.query.creator)
    /\ loadingNfts = TRUE
    /\ collectionQuery = [loading |-> TRUE, data |-> Undefined]
    /\ nftCountsQuery = [loading |-> TRUE]
    /\ walletCountsQuery =
          [loading |-> TRUE,
           variables |-> walletCountsVariables(Null, page.query.creator,
                             page.result.props.marketplace.auctionHouse.address),
           refetched |-> walletCountsEffect(Null, page.query.creator,
                             page.result.props.marketplace.auctionHouse.address)]
    /\ inflight = { [id |-> 1, kind |-> "query"] }
    /\ issued = 1
    /\ lastRequest = [id |-> 1, kind |-> "query",
                      variables |-> InitialVariables(page.query.creator)]
    /\ latestRefetch = 0
    /\ lastEvent = Event("mount", 1, 0, TRUE)
    /\ pristine = TRUE

Init == \E page \in ServedPages : Mounted(page) /\ matching = Undefined

-----------------------------------------------------------------------------
(* Wallet adapter *)

\* the wallet connects (or switches): re-render, the wallet-counts query gets
\* new variables, and the effect, run for the new publicKey, refetches it
Connect(key) ==
    /\ publicKey # key
    /\ publicKey' = key
    /\ connected' = TRUE
    /\ walletCountsQuery' =
          [loading |-> TRUE,
           variables |-> walletCountsVariables(key, routerQueryCreator,
                                               marketplace.auctionHouse.address),
           refetched |-> walletCountsEffect(key, routerQueryCreator,
                                            marketplace.auctionHouse.address)]
    /\ lastEvent' = Event("connect", 0, 0, FALSE)
    /\ pristine' = FALSE
    /\ UNCHANGED <<ssr, matching, hasMore, form, data, variables, loadingNfts, collectionQuery,
                   nftCountsQuery, inflight, issued, lastRequest, latestRefetch>>

\* the wallet disconnects: the effect runs for publicKey null
Disconnect ==
    /\ connected
    /\ publicKey' = Null
    /\ connected' = FALSE
    /\ walletCountsQuery' =
          [walletCountsQuery EXCEPT
              !.loading = TRUE,
              !.variables = walletCountsVariables(Null, routerQueryCreator,
                                                  marketplace.auctionHouse.address),
              !.refetched = walletCountsEffect(Null, routerQueryCreator,
                                               marketplace.auctionHouse.address)]
    /\ lastEvent' = Event("disconnect", 0, 0, FALSE)
    /\ pristine' = FALSE
    /\ UNCHANGED <<ssr, matching, hasMore, form, data, variables, loadingNfts, collectionQuery,
                   nftCountsQuery, inflight, issued, lastRequest, latestRefetch>>

-----------------------------------------------------------------------------
(* The filter form *)

\* the callback given to watch, run on the changed form values f
Watch(f) ==
    /\ form' = f
    /\ pristine' = FALSE
    /\ IF watchThrows(f)
       THEN /\ lastEvent' = Event("watch", 0, 0, FALSE)
            /\ UNCHANGED <<variables, inflight, issued, lastRequest, latestRefetch>>
       ELSE LET next == refetchVariables(variables, f, publicKey, routerQueryCreator,
                                         marketplace.auctionHouse.address)
                request == [id |-> issued + 1, kind |-> "refetch"]
            IN  /\ variables' = next
                /\ inflight' = send(inflight, request)
                /\ issued' = issued + 1
                /\ lastRequest' = [id |-> issued + 1, kind |-> "refetch", variables |-> next]
                /\ latestRefetch' = issued + 1
                /\ lastEvent' = Event("watch", issued + 1, 0, TRUE)
    /\ UNCHANGED <<ssr, matching, publicKey, connected, hasMore, data, loadingNfts, collectionQuery,
                   nftCountsQuery, walletCountsQuery>>

\* the preset radios shown: Owned and OpenOffers only when connected
presetRadios(isConnected) ==
    IF isConnected THEN { All, Listed, Owned, OpenOffers } ELSE { All, Listed }

\* a preset radio changes (radios are disabled while loading)
SelectPreset(preset) ==
    /\ ~loading
    /\ issued < MaxRequests
    /\ preset \in presetRadios(connected)
    /\ Watch([form EXCEPT !.preset = preset])

\* the values a multi Select can hand to onChange
selections(variants) ==
    { s \in SeqsUpTo({ optionsOf(variants)[i] : i \in DOMAIN variants }, MaxSelected) :
        \A i, j \in DOMAIN s : i # j => s[i] # s[j] }

\* an attribute Select changes: onChange({ traitType: group, values: next })
SelectAttribute ==
    /\ ~loading
    /\ issued < MaxRequests
    /\ ~isNil(collectionQuery.data)
    /\ \E index \in DOMAIN collectionQuery.data.attributeGroups :
       \E next \in selections(collectionQuery.data.attributeGroups[index].variants) :
          /\ next # form.attributes[index].values
          /\ Watch([form EXCEPT !.attributes[index] =
                      [traitType |-> collectionQuery.data.attributeGroups[index].name,
                       values |-> next]])

-----------------------------------------------------------------------------
(* Infinite scroll *)

\* onLoadMore(inView) up to the await
OnLoadMore(inView) ==
    /\ pristine' = FALSE
    /\ IF ~inView
       THEN /\ lastEvent' = LoadMoreEvent(0, FALSE, inView)
            /\ UNCHANGED <<inflight, issued, lastRequest>>
       ELSE /\ issued < MaxRequests
            /\ inflight' = send(inflight, [id |-> issued + 1, kind |-> "fetchMore"])
            /\ issued' = issued + 1
            /\ lastRequest' = [id |-> issued + 1, kind |-> "fetchMore",
                               variables |-> fetchMoreVariables(variables, data)]
            /\ lastEvent' = LoadMoreEvent(issued + 1, TRUE, inView)
    /\ UNCHANGED <<ssr, matching, publicKey, connected, hasMore, form, data, variables, loadingNfts,
                   collectionQuery, nftCountsQuery, walletCountsQuery, latestRefetch>>

-----------------------------------------------------------------------------
(* Responses of the API *)

\* the first page of useQuery(GET_NFTS) arrives: no handler of the page runs
QueryResponse(request, n) ==
    /\ request \in inflight /\ request.kind = "query"
    /\ inflight' = inflight \ { request }
    /\ data' = [nfts |-> n]
    /\ loadingNfts' = FALSE
    /\ form' = registerAttributes(form,
                   isLoading(FALSE, collectionQuery, nftCountsQuery, walletCountsQuery),
                   collectionQuery)
    /\ lastEvent' = Event("queryResponse", request.id, n, FALSE)
    /\ UNCHANGED <<ssr, matching, publicKey, connected, hasMore, variables, collectionQuery,
                   nftCountsQuery, walletCountsQuery, issued, lastRequest, latestRefetch, pristine>>

\* a refetch resolves: .then(({ data: { nfts } }) => setHasMore(length(nfts) == limit))
RefetchResponse(request, n) ==
    /\ request \in inflight /\ request.kind = "refetch"
    /\ inflight' = inflight \ { request }
    /\ data' = [nfts |-> n]
    /\ hasMore' = thenSetHasMore(n, variables.limit)
    /\ lastEvent' = Event("refetchResponse", request.id, n, FALSE)
    /\ UNCHANGED <<ssr, matching, publicKey, connected, form, variables, loadingNfts, collectionQuery,
                   nftCountsQuery, walletCountsQuery, issued, lastRequest, latestRefetch, pristine>>

\* fetchMore resolves: onLoadMore after the await
FetchMoreResponse(request, n) ==
    /\ request \in inflight /\ request.kind = "fetchMore"
    /\ inflight' = inflight \ { request }
    /\ data' = mergeNfts(data, n)
    /\ hasMore' = whenEmptySetHasMoreFalse(n, hasMore)
    /\ lastEvent' = Event("fetchMoreResponse", request.id, n, FALSE)
    /\ UNCHANGED <<ssr, matching, publicKey, connected, form, variables, loadingNfts, collectionQuery,
                   nftCountsQuery, walletCountsQuery, issued, lastRequest, latestRefetch, pristine>>

\* GET_COLLECTION_INFO answers
CollectionResponse(creator) ==
    /\ collectionQuery.loading
    /\ collectionQuery' = [loading |-> FALSE, data |-> creator]
    /\ form' = registerAttributes(form,
                   isLoading(loadingNfts, collectionQuery', nftCountsQuery, walletCountsQuery),
                   collectionQuery')
    /\ lastEvent' = Event("collectionResponse", 0, 0, FALSE)
    /\ UNCHANGED <<ssr, matching, publicKey, connected, hasMore, data, variables, loadingNfts,
                   nftCountsQuery, walletCountsQuery, inflight, issued, lastRequest,
                   latestRefetch, pristine>>

\* GET_NFT_COUNTS answers
NftCountsResponse ==
    /\ nftCountsQuery.loading
    /\ nftCountsQuery' = [loading |-> FALSE]
    /\ form' = registerAttributes(form,
                   isLoading(loadingNfts, collectionQuery, nftCountsQuery', walletCountsQuery),
                   collectionQuery)
    /\ lastEvent' = Event("nftCountsResponse", 0, 0, FALSE)
    /\ UNCHANGED <<ssr, matching, publicKey, connected, hasMore, data, variables, loadingNfts,
                   collectionQuery, walletCountsQuery, inflight, issued, lastRequest,
                   latestRefetch, pristine>>

\* GET_WALLET_COUNTS answers for the current variables; walletCountsQuery is a
\* dependency of the effect, which runs again
WalletCountsResponse ==
    /\ walletCountsQuery.loading
    /\ walletCountsQuery' =
          [walletCountsQuery EXCEPT
              !.loading = FALSE,
              !.refetched = walletCountsEffect(publicKey, routerQueryCreator,
                                               marketplace.auctionHouse.address)]
    /\ form' = registerAttributes(form,
                   isLoading(loadingNfts, collectionQuery, nftCountsQuery, walletCountsQuery'),
                   collectionQuery)
    /\ lastEvent' = Event("walletCountsResponse", 0, 0, FALSE)
    /\ UNCHANGED <<ssr, matching, publicKey, connected, hasMore, data, variables, loadingNfts,
                   collectionQuery, nftCountsQuery, inflight, issued, lastRequest,
                   latestRefetch, pristine>>

-----------------------------------------------------------------------------

Next ==
    \/ \E key \in Keys : Connect(key)
    \/ Disconnect
    \/ \E preset \in PresetNftFilter : SelectPreset(preset)
    \/ SelectAttribute
    \/ \E inView \in BOOLEAN : OnLoadMore(inView)
    \/ \E request \in inflight, n \in PageSizes : QueryResponse(request, n)
    \/ \E request \in inflight, n \in PageSizes : RefetchResponse(request, n)
    \/ \E request \in inflight, n \in PageSizes : FetchMoreResponse(request, n)
    \/ \E creator \in CollectionCreators : CollectionResponse(creator)
    \/ NftCountsResponse
    \/ WalletCountsResponse

Spec == Init /\ [][Next]_vars

-----------------------------------------------------------------------------
(* The server side alone: one request to the page *)

InitServer ==
    /\ \E m \in Marketplaces, c \in Creators, q \in Addresses :
          ssr = [query |-> [creator |-> q],
                 data |-> [marketplace |-> m, creator |-> c],
                 result |-> Pending]
    /\ publicKey = Null /\ connected = FALSE /\ hasMore = TRUE
    /\ form = Null /\ data = Null /\ variables = Null /\ loadingNfts = TRUE
    /\ collectionQuery = Null /\ nftCountsQuery = Null /\ walletCountsQuery = Null
    /\ inflight = {} /\ issued = 0 /\ lastRequest = Null /\ latestRefetch = 0
    /\ lastEvent = Null /\ pristine = TRUE /\ matching = Undefined

\* getServerSideProps runs on the answer of GetCollectionPage
GetServerSideProps ==
    /\ ssr.result = Pending
    /\ ssr' = [ssr EXCEPT !.result =
                 getServerSideProps(ssr.data.marketplace, ssr.data.creator, ssr.query.creator)]
    /\ UNCHANGED clientVars

NextServer == GetServerSideProps

SpecServer == InitServer /\ [][NextServer]_vars

-----------------------------------------------------------------------------
(* Scrolling a finite collection to its end, the filter left alone *)

\* largest collection the requests of one run can page through
MaxMatching == (MaxRequests - 1) * Limit - 1

\* the page the API answers out of total matching NFTs
served(total, offset, limit) ==
    IF total <= offset THEN 0
    ELSE IF total - offset < limit THEN total - offset
    ELSE limit

\* <List> shows its sentinel below the items: after the page has loaded, while
\* hasMore, and again once the page it asked for has been appended
sentinelVisible == hasMore /\ ~loading /\ inflight = {}

InitScroll ==
    \E page \in ServedPages, total \in 0..MaxMatching :
        Mounted(page) /\ matching = total

ScrollLoadMore == sentinelVisible /\ OnLoadMore(TRUE)

ScrollQueryResponse ==
    \E request \in inflight :
        /\ request.id = lastRequest.id
        /\ QueryResponse(request, served(matching, lastRequest.variables.offset,
                                         lastRequest.variables.limit))

ScrollFetchMoreResponse ==
    \E request \in inflight :
        /\ request.id = lastRequest.id
        /\ FetchMoreResponse(request, served(matching, lastRequest.variables.offset,
                                             lastRequest.variables.limit))

ScrollCollectionResponse == \E creator \in CollectionCreators : CollectionResponse(creator)

NextScroll ==
    \/ ScrollLoadMore
    \/ ScrollQueryResponse
    \/ ScrollFetchMoreResponse
    \/ ScrollCollectionResponse
    \/ NftCountsResponse
    \/ WalletCountsResponse

\* what every step of the scroll changes: a request sent or answered, or a
\* query that stops loading
progress ==
    <<issued, inflight, loadingNfts, collectionQuery.loading, nftCountsQuery.loading,
      walletCountsQuery.loading>>

\* the API answers every request; the sentinel comes into view when shown
SpecScroll ==
    /\ InitScroll
    /\ [][NextScroll]_vars
    /\ WF_progress(ScrollLoadMore)
    /\ WF_progress(ScrollQueryResponse)
    /\ WF_progress(ScrollFetchMoreResponse)
    /\ WF_progress(ScrollCollectionResponse)
    /\ WF_progress(NftCountsResponse)
    /\ WF_progress(WalletCountsResponse)

-----------------------------------------------------------------------------
(* Claims *)

\* the watch callback has just sent a refetch for the current form values
RefetchJustSent == lastEvent.type = "watch" /\ lastEvent.sent

\* the number of non-null values among xs
nonNull(xs) == Cardinality({ i \in DOMAIN xs : xs[i] # Null })

\* C1: in every refetch sent by the watch callback, owners is [current wallet]
\* when the preset is Owned and null otherwise, offerers is [current wallet]
\* when the preset is OpenOffers and null otherwise, listed is [auction-house
\* address] when the preset is Listed and null otherwise; so at most one of
\* the three is non-null, and preset All gives three nulls.
C1_PresetDeterminesVariables ==
    RefetchJustSent =>
        LET v == lastRequest.variables
            wallet == IF publicKey = Null THEN UndefinedStr ELSE base58(publicKey.n)
        IN  /\ lastRequest.kind = "refetch"
            /\ v.owners = (IF form.preset = "Owned" THEN List(<<wallet>>) ELSE Null)
            /\ v.offerers = (IF form.preset = "OpenOffers" THEN List(<<wallet>>) ELSE Null)
            /\ v.listed = (IF form.preset = "Listed"
                           THEN List(<<marketplace.auctionHouse.address>>) ELSE Null)
            /\ nonNull(<<v.owners, v.offerers, v.listed>>) <= 1
            /\ (form.preset = "All" => nonNull(<<v.owners, v.offerers, v.listed>>) = 0)

\* a refetch for preset Owned went out with the connected wallet's base58 address
C1_Witness ==
    /\ RefetchJustSent
    /\ form.preset = "Owned"
    /\ publicKey = PublicKey(59)
    /\ lastRequest.variables.owners = List(<<"22">>)
    /\ lastRequest.variables.offerers = Null
    /\ lastRequest.variables.listed = Null

\* C2 (as claimed): after any page received from a filter refetch or from a
\* load-more request that holds fewer than limit items, hasMore is false.
C2_ShortPageStops ==
    (/\ lastEvent.type \in { "refetchResponse", "fetchMoreResponse" }
     /\ lastEvent.n < Limit)
    => hasMore = FALSE

\* C3: onLoadMore sends a request only when inView, and then with offset equal
\* to the number of NFTs held (0 without data); with inView false it sends
\* nothing and leaves hasMore alone.
C3_LoadMoreState ==
    lastEvent.type = "loadMore" =>
        /\ lastEvent.sent = lastEvent.inView
        /\ lastEvent.sent =>
              /\ lastRequest.kind = "fetchMore"
              /\ lastRequest.id = lastEvent.id
              /\ lastRequest.variables.offset = (IF data = Undefined THEN 0 ELSE data.nfts)

C3_LoadMoreStep ==
    (lastEvent'.type = "loadMore" /\ ~lastEvent'.inView) =>
        UNCHANGED <<hasMore, inflight, issued, lastRequest, data, variables>>

C3_LoadMoreOffset == [](C3_LoadMoreState) /\ [][C3_LoadMoreStep]_vars

\* the third request is a load-more for offset 47: a full first page and a
\* load-more page of 23 are held
C3_Witness ==
    /\ lastEvent.type = "loadMore" /\ lastEvent.sent
    /\ data = [nfts |-> Limit + (Limit - 1)]
    /\ lastRequest.variables.offset = 47

\* C4: getServerSideProps answers notFound exactly when the marketplace is
\* absent, the creator is absent, or the requested address is not a
\* creatorAddress of the marketplace's creators; otherwise props holding the
\* fetched marketplace and creator; never both.
C4_NotFoundExactly ==
    ssr.result # Pending =>
        LET m == ssr.data.marketplace
            c == ssr.data.creator
            registered ==
                IF m = Null THEN FALSE
                ELSE IF m.creators = Null THEN FALSE
                ELSE \E i \in DOMAIN m.creators.items :
                        m.creators.items[i].creatorAddress = ssr.query.creator
            absent == m = Null \/ c = Null \/ ~registered
        IN  /\ DOMAIN ssr.result \in { { "notFound" }, { "props" } }
            /\ absent <=> ssr.result = [notFound |-> TRUE]
            /\ ~absent <=> ssr.result = [props |-> [marketplace |-> m, creator |-> c]]

\* props are returned for a creator registered second on the marketplace
C4_Witness ==
    /\ DOMAIN ssr.result = { "props" }
    /\ ssr.query.creator = "creatorB"
    /\ Len(ssr.data.marketplace.creators.items) = 2
    /\ ssr.data.marketplace.creators.items[2].creatorAddress = "creatorB"
    /\ ssr.data.marketplace.creators.items[1].creatorAddress = "creatorA"

\* C5: the attributes of a refetch are exactly the form's selections with a
\* non-empty value list, in their order, traitType unchanged, values replaced
\* by the options' value fields; empty selections are never sent.
C5_AttributesFlattened ==
    RefetchJustSent =>
        LET sent == lastRequest.variables.attributes.items
            selected == { i \in DOMAIN form.attributes : form.attributes[i].values # <<>> }
            position(i) == Cardinality({ k \in selected : k <= i })
        IN  /\ Len(sent) = Cardinality(selected)
            /\ \A i \in selected :
                  /\ sent[position(i)].traitType = form.attributes[i].traitType
                  /\ Len(sent[position(i)].values) = Len(form.attributes[i].values)
                  /\ \A j \in DOMAIN form.attributes[i].values :
                        sent[position(i)].values[j] = form.attributes[i].values[j].value
            /\ \A k \in DOMAIN sent : sent[k].values # <<>>

\* the first selection is empty and dropped; the second is sent flattened
C5_Witness ==
    /\ RefetchJustSent
    /\ form.attributes = << [traitType |-> "Background", values |-> <<>>],
                            [traitType |-> "Hat",
                             values |-> << [value |-> "Cap", label |-> "Cap (3)"] >>] >>
    /\ lastRequest.variables.attributes =
          List(<< [traitType |-> "Hat", values |-> << "Cap" >>] >>)

\* C6 (as claimed): every change of the filter form issues exactly one refetch
\* of the NFT list, with offset 0 and creators = [route creator].
C6_EveryChangeRefetches ==
    lastEvent.type = "watch" =>
        /\ lastEvent.sent
        /\ lastRequest.kind = "refetch"
        /\ lastRequest.id = issued
        /\ lastRequest.variables.offset = 0
        /\ lastRequest.variables.creators = List(<<routerQueryCreator>>)

\* C7: a filter change while a refetch is in flight sends a new request and
\* cancels nothing, and the response of a superseded refetch still sets
\* hasMore when it arrives.
C7_SupersededState ==
    (lastEvent.type = "refetchResponse" /\ lastEvent.id < latestRefetch)
    => hasMore = (lastEvent.n = Limit)

C7_SendStep ==
    (lastEvent'.type = "watch" /\ issued' # issued) =>
        /\ inflight \subseteq inflight'
        /\ inflight' \ inflight = { [id |-> issued + 1, kind |-> "refetch"] }

C7_NoCancellation == [](C7_SupersededState) /\ [][C7_SendStep]_vars

\* the latest refetch was answered first; the superseded one answered last
\* with a full page, and hasMore is true from it
C7_Witness ==
    /\ lastEvent.type = "refetchResponse"
    /\ lastEvent.id < latestRefetch
    /\ \A r \in inflight : r.id # latestRefetch
    /\ lastEvent.n = Limit
    /\ hasMore = TRUE

\* C8 (as claimed): a refetch issued while the preset is Owned has owners =
\* [connected wallet's address], one issued while it is OpenOffers has
\* offerers = [connected wallet's address]; the element is never undefined.
C8_WalletAddressPresent ==
    RefetchJustSent =>
        /\ form.preset = "Owned" =>
              /\ publicKey # Null
              /\ lastRequest.variables.owners = List(<<toBase58(publicKey)>>)
              /\ lastRequest.variables.owners.items[1] # UndefinedStr
        /\ form.preset = "OpenOffers" =>
              /\ publicKey # Null
              /\ lastRequest.variables.offerers = List(<<toBase58(publicKey)>>)
              /\ lastRequest.variables.offerers.items[1] # UndefinedStr

\* C9: on mount and until the first input, the preset is All, hasMore is true
\* and the only NFT-list request sent is { creators: [route creator],
\* offset: 0, limit: 24 } with no other constraint; the answer to that first
\* request leaves hasMore as it is.
C9_MountState ==
    pristine =>
        /\ form.preset = "All"
        /\ hasMore = TRUE
        /\ issued = 1
        /\ lastRequest.id = 1 /\ lastRequest.kind = "query"
        /\ lastRequest.variables =
              [creators |-> List(<<routerQueryCreator>>), offset |-> 0, limit |-> 24,
               owners |-> Undefined, listed |-> Undefined, offerers |-> Undefined,
               attributes |-> Undefined]
        /\ \A r \in inflight : r = [id |-> 1, kind |-> "query"]

C9_FirstPageStep == lastEvent'.type = "queryResponse" => hasMore' = hasMore

C9_InitialQuery == [](C9_MountState) /\ [][C9_FirstPageStep]_vars

\* the first page arrived short of the limit and hasMore is still true
C9_Witness ==
    /\ pristine
    /\ lastEvent.type = "queryResponse"
    /\ data = [nfts |-> Limit - 1]
    /\ hasMore = TRUE

\* C10: a load-more request differs from the NFT request sent before it, and
\* from the query's current variables, only in offset; sending it leaves the
\* filter form and the variables alone; every NFT-list request has limit 24.
FilterFields == { "creators", "owners", "listed", "offerers", "attributes", "limit" }

C10_RequestState ==
    /\ lastRequest.variables.limit = 24
    /\ (lastEvent.type = "loadMore" /\ lastEvent.sent) =>
          \A field \in FilterFields : lastRequest.variables[field] = variables[field]

C10_LoadMoreStep ==
    (lastEvent'.type = "loadMore" /\ issued' # issued) =>
        /\ \A field \in FilterFields :
              lastRequest'.variables[field] = lastRequest.variables[field]
        /\ form' = form
        /\ variables' = variables

C10_OnlyOffsetDiffers == [](C10_RequestState) /\ [][C10_LoadMoreStep]_vars

\* after a refetch for preset Listed, load-more asks the Listed filter again
\* at offset 24
C10_Witness ==
    /\ lastEvent.type = "loadMore" /\ lastEvent.sent
    /\ form.preset = "Listed"
    /\ lastRequest.variables.listed = List(<<"auctionHouse1">>)
    /\ lastRequest.variables.offset = Limit
    /\ variables.offset = 0

\* C11: a filter refetch that resolves sets hasMore to (page length = limit);
\* a load-more response sets hasMore to false when its page is empty and
\* otherwise leaves it; hasMore goes from false to true only when a filter
\* refetch resolves with a full page.
C11_RefetchState ==
    lastEvent.type = "refetchResponse" => (hasMore <=> lastEvent.n = 24)

C11_HasMoreStep ==
    /\ (~hasMore /\ hasMore') =>
          (lastEvent'.type = "refetchResponse" /\ lastEvent'.n = 24)
    /\ (lastEvent'.type = "fetchMoreResponse" /\ inflight' # inflight) =>
          (hasMore' <=> (hasMore /\ lastEvent'.n # 0))

C11_HasMoreTransitions == [](C11_RefetchState) /\ [][C11_HasMoreStep]_vars

\* a full load-more page arrived while hasMore was false, and it is still false
C11_Witness ==
    /\ lastEvent.type = "fetchMoreResponse"
    /\ lastEvent.n = Limit
    /\ hasMore = FALSE

\* C12: the page is loading exactly when one of the four queries is loading;
\* while loading, placeholders stand for the statistics and the preset radios
\* are disabled, so the preset cannot change; when not loading, floor, 24-hour
\* volume and average show (through toSOL) 0 for an empty stats list and the
\* first entry's value otherwise, and the NFT count shows creations, or 0
\* when it is absent.
AnyQueryLoading ==
    \/ loadingNfts = TRUE
    \/ collectionQuery.loading = TRUE
    \/ nftCountsQuery.loading = TRUE
    \/ walletCountsQuery.loading = TRUE

C12_ViewState ==
    /\ \A field \in { "floor", "volume24hr", "average", "nfts" } :
          (view[field] = Placeholder) <=> AnyQueryLoading
    /\ view.presetDisabled <=> AnyQueryLoading
    /\ ~AnyQueryLoading =>
          LET stats == collectionQuery.data.stats
              counts == collectionQuery.data.counts
          IN  /\ \A field \in { "floor", "volume24hr", "average" } :
                    view[field] = [toSOL |-> IF Len(stats) = 0 THEN 0 ELSE stats[1][field].bn]
              /\ view.nfts = [text |-> IF counts = Null THEN 0 ELSE counts.creations]

C12_PresetStep == form'.preset # form.preset => ~AnyQueryLoading

C13_EmptyPageSeen ==
    /\ lastEvent.type = "fetchMoreResponse"
    /\ lastEvent.n = 0
    /\ hasMore = FALSE

C13_StaysFalseStep == hasMore = FALSE => hasMore' = FALSE

C13_OffsetStep ==
    (lastRequest.kind = "fetchMore" /\ lastRequest'.kind = "fetchMore") =>
        lastRequest'.variables.offset >= lastRequest.variables.offset

C13_PaginationTerminates ==
    /\ <>C13_EmptyPageSeen
    /\ <>[](hasMore = FALSE /\ inflight = {})
    /\ [][C13_StaysFalseStep]_vars
    /\ [][C13_OffsetStep]_vars

\* the end of a collection of two pages: the second page was short, the third empty
C13_Witness ==
    /\ C13_EmptyPageSeen
    /\ matching = MaxMatching
    /\ data = [nfts |-> MaxMatching]
    /\ lastRequest.variables.offset = MaxMatching

\* C14: the wallet-counts effect refetches only when a public key is present,
\* and then with address = the key's base58 string, creators = [route
\* creator] and auctionHouses = [auction-house address]; with no wallet
\* connected it issues no refetch; it never changes the NFT-list query
\* variables, the filter form or hasMore.
C14_EffectState ==
    /\ publicKey = Null => walletCountsQuery.refetched = Undefined
    /\ publicKey # Null =>
          /\ walletCountsQuery.refetched # Undefined
          /\ walletCountsQuery.refetched.address = base58(publicKey.n)
          /\ walletCountsQuery.refetched.creators = List(<<ssr.query.creator>>)
          /\ walletCountsQuery.refetched.auctionHouses =
                List(<<ssr.result.props.marketplace.auctionHouse.address>>)

\* the steps in which the effect runs
C14_EffectStep ==
    lastEvent'.type \in { "connect", "disconnect", "walletCountsResponse" } =>
        /\ variables' = variables
        /\ hasMore' = hasMore
        /\ form'.preset = form.preset
        /\ isNil(form.attributes) \/ form'.attributes = form.attributes
        /\ lastEvent'.type # "walletCountsResponse" =>
              (isNil(form.attributes) <=> isNil(form'.attributes))

C14_WalletCountsEffect == [](C14_EffectState) /\ [][C14_EffectStep]_vars

\* the wallet 59 ("22" in base58) has just connected over a filtered list
C14_Witness ==
    /\ lastEvent.type = "connect"
    /\ publicKey = PublicKey(59)
    /\ walletCountsQuery.refetched.address = "22"
    /\ form.preset = Listed
    /\ hasMore = FALSE

====
